---- MODULE Spec2Model ----
(***************************************************************************)
(* SentiView: the dashboard page (src/sentiview/src/app/page.tsx) and the  *)
(* upload analyzer component it embeds                                     *)
(* (src/sentiview/src/components/auth/RegisterForm.tsx).                   *)
(*                                                                         *)
(* Numbers.  A score is a JavaScript number.  The model keeps a score as   *)
(* an integer count of units of 1/Scale (so Scale stands for 1.0) and      *)
(* every derived quantity (means, heatmap scores, changePct) as an exact   *)
(* fraction <<numerator, denominator>> in lowest terms.  Floating-point    *)
(* rounding and NaN are outside the model.                                 *)
(*                                                                         *)
(* Time.  `now` counts abstract clock ticks; DayLen ticks make one UTC     *)
(* day, so formatDayKey(t) is t \div DayLen.  Two calls of Date.now()      *)
(* with no tick in between return the same value.                          *)
(***************************************************************************)
EXTENDS Integers, Sequences, FiniteSets, TLC

(* ------------------------------ bounds -------------------------------- *)

\* units per 1.0 of a score
Scale == 2
\* clock ticks per day
DayLen == 2
\* last clock tick
MaxNow == 2
\* handleSave calls in Spec
MaxSaves == 3
\* handleSave calls in SpecSummary
MaxLong == 15
\* handleSave calls in SpecPage
MaxPageSaves == 2
\* journal entries in SpecPage
MaxEntries == 2
\* journal operations in SpecPage
MaxUiSteps == 4
\* object URLs handed out by the journal in SpecPage
MaxUrls == 1
\* handleNewFile runs in SpecAnalyzer
MaxRuns == 2
\* getUserMedia requests in SpecAnalyzer
MaxStreams == 1
\* ticks of the progress interval per run of SpecAnalyzer
MaxTicks == 1
\* saves from the analyzer in SpecAnalyzer
MaxAnalyzerSaves == 1
\* submits of the login form in SpecLogin
MaxSubmits == 2
\* largest file size, in bytes, handed to mockAnalyze in SpecMock
MaxSize == 100

(* ----------------------------- helpers -------------------------------- *)

Max(a, b) == IF a >= b THEN a ELSE b

Min(a, b) == IF a <= b THEN a ELSE b

Abs(a) == IF a < 0 THEN -a ELSE a

RECURSIVE GCD(_, _)
GCD(a, b) == IF b = 0 THEN a ELSE GCD(b, a % b)

\* the fraction n/d (d # 0) in lowest terms with a positive denominator
Frac(n, d) ==
  LET s == IF d < 0 THEN -1 ELSE 1
      g == GCD(Abs(n), Abs(d))
  IN  <<(s * n) \div g, (s * d) \div g>>

FAdd(x, y) ==
  LET g == GCD(x[2], y[2])
  IN  Frac(x[1] * (y[2] \div g) + y[1] * (x[2] \div g), (x[2] \div g) * y[2])

FSub(x, y) == FAdd(x, <<-y[1], y[2]>>)

FMul(x, y) ==
  LET g1 == GCD(Abs(x[1]), y[2])
      g2 == GCD(Abs(y[1]), x[2])
  IN  IF x[1] = 0 \/ y[1] = 0 THEN <<0, 1>>
      ELSE <<(x[1] \div g1) * (y[1] \div g2), (x[2] \div g2) * (y[2] \div g1)>>

\* x / k for an integer k > 0
FDivInt(x, k) == FMul(x, Frac(1, k))

\* a/b <= c/d for a, c >= 0 and b, d > 0, by continued fractions (no products)
RECURSIVE LeqPos(_, _, _, _)
LeqPos(a, b, c, d) ==
  IF a \div b # c \div d THEN a \div b < c \div d
  ELSE IF a % b = 0 THEN TRUE
  ELSE IF c % d = 0 THEN FALSE
  ELSE LeqPos(d, c % d, b, a % b)

FLeq(x, y) ==
  IF x[1] <= 0 /\ y[1] >= 0 THEN TRUE
  ELSE IF x[1] > 0 /\ y[1] <= 0 THEN FALSE
  ELSE IF x[1] > 0 THEN LeqPos(x[1], x[2], y[1], y[2])
  ELSE LeqPos(-y[1], y[2], -x[1], x[2])

FLt(x, y) == ~FLeq(y, x)

FZero == <<0, 1>>

FOne == <<1, 1>>

RECURSIVE SeqSum(_)
SeqSum(s) == IF s = <<>> THEN 0 ELSE s[1] + SeqSum(Tail(s))

RECURSIVE FSeqSum(_)
FSeqSum(s) == IF s = <<>> THEN FZero ELSE FAdd(s[1], FSeqSum(Tail(s)))

Last(s, n) == SubSeq(s, Max(1, Len(s) - n + 1), Len(s))

(* ------------------------- emotion categories ------------------------- *)

\* AnalyzerEmotion, in the order of EMOTIONS
EMOTIONS == <<"happy", "sad", "angry", "surprised", "disgusted", "fearful", "neutral">>

AnalyzerEmotion == {EMOTIONS[i] : i \in 1..Len(EMOTIONS)}

\* DashboardEmotion, in the key order of the object literals of page.tsx
DashboardOrder == <<"joy", "sadness", "anger", "fear", "surprise", "disgust", "neutral">>

DashboardEmotion == {DashboardOrder[i] : i \in 1..Len(DashboardOrder)}

analyzerToDashboardMap ==
  [k \in AnalyzerEmotion |->
     CASE k = "happy" -> "joy"
       [] k = "sad" -> "sadness"
       [] k = "angry" -> "anger"
       [] k = "surprised" -> "surprise"
       [] k = "disgusted" -> "disgust"
       [] k = "fearful" -> "fear"
       [] k = "neutral" -> "neutral"]

\* Object.values(scores) in key order
ObjectValues(scores) == [i \in 1..Len(DashboardOrder) |-> scores[DashboardOrder[i]]]

\* entries.sort((a, b) => b[1] - a[1]): the keys by descending value, stable
RECURSIVE InsertDesc(_, _, _)
InsertDesc(sorted, k, val) ==
  IF sorted = <<>> THEN <<k>>
  ELSE IF val[sorted[1]] >= val[k] THEN <<sorted[1]>> \o InsertDesc(Tail(sorted), k, val)
  ELSE <<k>> \o sorted

RECURSIVE SortDescFrom(_, _, _)
SortDescFrom(sorted, rest, val) ==
  IF rest = <<>> THEN sorted
  ELSE SortDescFrom(InsertDesc(sorted, rest[1], val), Tail(rest), val)

\* (an unstable variant: among equal values the later key comes first)
RECURSIVE InsertDescLate(_, _, _)
InsertDescLate(sorted, k, val) ==
  IF sorted = <<>> THEN <<k>>
  ELSE IF val[sorted[1]] > val[k] THEN <<sorted[1]>> \o InsertDescLate(Tail(sorted), k, val)
  ELSE <<k>> \o sorted

RECURSIVE SortDescLateFrom(_, _, _)
SortDescLateFrom(sorted, rest, val) ==
  IF rest = <<>> THEN sorted
  ELSE SortDescLateFrom(InsertDescLate(sorted, rest[1], val), Tail(rest), val)

SortDescLate(val) == SortDescLateFrom(<<>>, DashboardOrder, val)
SortDesc(val) == SortDescFrom(<<>>, DashboardOrder, val)

(* ------------------------------- state -------------------------------- *)

VARIABLES
  now,              \* Date.now(), in clock ticks
  timeSeries,       \* page.tsx:47   TimePoint[]
  distribution,     \* page.tsx:48   Record<DashboardEmotion, number>
  heatmap,          \* page.tsx:57   HeatmapDay[]
  recentAnalyses,   \* page.tsx:58   RecentAnalysis[]
  journalEntries,   \* page.tsx:59
  journalText,      \* page.tsx:60
  journalImageUrl,  \* page.tsx:61
  journalOpen,      \* page.tsx:63
  pageIndex,        \* page.tsx:64
  journalView,      \* page.tsx:65
  drafts,           \* page.tsx:117
  savedMap,         \* page.tsx:118
  savedTimers,      \* the setTimeout callbacks of saveDay still pending (a bag of days)
  activeKey,        \* page.tsx:43
  memoToday,        \* the day on which the dayKeys memo was last computed
  scrollTimers,     \* pending setTimeout callbacks of the onSave wrapper
  uiSteps,          \* history: the number of journal operations so far
  urlCount,         \* object URLs handed out by URL.createObjectURL so far
  revoked,          \* object URLs passed to URL.revokeObjectURL
  saveLog,          \* history: the payloads of the handleSave calls, in call order
  mounted,          \* the EmotionUploadAnalyzer component is mounted
  state,            \* RegisterForm.tsx:254  AnalysisState
  error,            \* RegisterForm.tsx:255  <<>> for null, <<message>> otherwise
  file,             \* RegisterForm.tsx:256  <<>> for null, <<file>> otherwise
  imageUrl,         \* RegisterForm.tsx:257
  scores,           \* RegisterForm.tsx:258  <<>> for null, <<scores>> otherwise
  analyzingProgress,\* RegisterForm.tsx:259
  note,             \* RegisterForm.tsx:261
  timerRef,         \* RegisterForm.tsx:265  analyzingTimer.current, 0 for null
  liveTimers,       \* intervals created by setInterval and not cleared
  timerCount,       \* intervals created so far
  ticks,            \* history: ticks of the live interval since it was created
  runs,             \* the handleNewFile calls in flight, in call order
  cameraOpen,       \* RegisterForm.tsx:266
  streamRef,        \* RegisterForm.tsx:268  streamRef.current, 0 for null
  liveStreams,      \* camera streams with running tracks
  streamCount,      \* camera streams acquired so far
  camPending,       \* getUserMedia promises not yet settled
  started,          \* history: handleNewFile calls so far
  called,           \* history: analyzer calls so far
  justFailed,       \* history: the last step was the catch block of handleNewFile
  scoresRun,        \* history: the run whose result is in scores, 0 for none
  fileRun,          \* history: the run that set file and imageUrl, 0 for none
  lastPick,         \* history: <<f>> if the last step was the choice of file f by the
                    \* file picker or by drop, <<>> otherwise
  email,            \* LoginForm.tsx:16  a string as a sequence of characters
  password,         \* LoginForm.tsx:17
  rememberMe,       \* LoginForm.tsx:18
  isPending,        \* LoginForm.tsx:19
  loginMounted,     \* the login form is mounted
  route,            \* the route the router was last sent to
  inFlight,         \* <<request>> while signIn.email is pending, <<>> otherwise
  requests,         \* history: the sign-in requests made, in order
  submitLog,        \* history: <<email, password>> at each call of handleSubmit
  outcomes,         \* history: how each completed request ended
  pushes,           \* history: calls of router.push("/profile")
  mockFileA,        \* a file handed to mockAnalyze
  mockFileB,        \* another file handed to mockAnalyze
  mockScoresA,      \* <<>>, or <<scores>> returned by mockAnalyze for mockFileA
  mockScoresB       \* <<>>, or <<scores>> returned by mockAnalyze for mockFileB

pageVars ==
  <<timeSeries, distribution, heatmap, recentAnalyses, journalEntries, journalText,
    journalImageUrl, journalOpen, pageIndex, journalView, drafts, savedMap, savedTimers,
    activeKey, memoToday, scrollTimers, uiSteps, saveLog>>

analyzerVars ==
  <<mounted, state, error, file, imageUrl, scores, analyzingProgress, note, timerRef,
    liveTimers, timerCount, ticks, runs, cameraOpen, streamRef, liveStreams, streamCount,
    camPending, started, called, justFailed, scoresRun, fileRun, lastPick>>

loginVars ==
  <<email, password, rememberMe, isPending, loginMounted, route, inFlight, requests,
    submitLog, outcomes, pushes>>

mockVars == <<mockFileA, mockFileB, mockScoresA, mockScoresB>>

vars == <<now, pageVars, urlCount, revoked, analyzerVars, loginVars, mockVars>>

\* URLs are integers: NullUrl is null, a positive number is a "blob:" object URL,
\* a negative number is any other URL
NullUrl == 0

\* the Unsplash fallback image of handleSave
FallbackImage == -1

IsBlob(u) == u > 0

\* a journal or note text is a sequence of paragraphs; the blank text is <<>>,
\* trim() is the identity on this form and join("\n\n") is concatenation
BlankText == <<>>

(* --------------------------- page: handleSave ------------------------- *)

formatDayKey(t) == t \div DayLen

\* a payload score is <<x>> for the number x (in units) and <<>> for undefined/null

\* payload.scores[k] ?? 0
OrZero(v) == IF v = <<>> THEN 0 ELSE v[1]

\* Math.max(0, Math.min(1, x))
Clamp01NoUpper(x) == Max(0, x)
Clamp01(x) == Max(0, Min(Scale, x))

RECURSIVE SumClamped(_, _)
SumClamped(keys, sc) ==
  IF keys = {} THEN 0
  ELSE LET k == CHOOSE x \in keys : TRUE
       IN  Clamp01(OrZero(sc[k])) + SumClamped(keys \ {k}, sc)

\* converted: all seven categories start at 0; each key of payload.scores adds
\* its clamped value to the category it maps to
Converted(sc) ==
  [e \in DashboardEmotion |->
     SumClamped({k \in DOMAIN sc : analyzerToDashboardMap[k] = e}, sc)]

\* the mean of the values of a score record, as the code computes it:
\* vals.length ? sum / vals.length : 0
MeanOfScores(sc) ==
  LET vals == ObjectValues(sc)
  IN  IF Len(vals) # 0 THEN Frac(SeqSum(vals), Len(vals) * Scale) ELSE FZero

\* Math.max(0, Math.min(1, v)) on a fraction
FClamp01(x) == IF FLeq(x, FZero) THEN FZero ELSE IF FLeq(FOne, x) THEN FOne ELSE x

RECURSIVE InsertByDate(_, _)
InsertByDate(sorted, d) ==
  IF sorted = <<>> THEN <<d>>
  ELSE IF sorted[1].date <= d.date THEN <<sorted[1]>> \o InsertByDate(Tail(sorted), d)
  ELSE <<d>> \o sorted

\* .sort((a, b) => +new Date(a.date) - +new Date(b.date)), stable
RECURSIVE SortByDate(_)
SortByDate(s) ==
  IF s = <<>> THEN <<>> ELSE InsertByDate(SortByDate(SubSeq(s, 1, Len(s) - 1)), s[Len(s)])

\* the updater of setHeatmap: every existing day is seeded with count 1, the
\* day of `t` is averaged with the new sample or added, the totals are clamped
HeatmapUpdate(prev, converted, t) ==
  LET kNow == formatDayKey(t)
      vals == ObjectValues(converted)
      mean == Frac(SeqSum(vals), Max(1, Len(vals)) * Scale)
      seeded == [i \in 1..Len(prev) |-> [date |-> prev[i].date, total |-> prev[i].score, count |-> 1]]
      combine(ex) == [date |-> ex.date,
                      total |-> FDivInt(FAdd(FMul(ex.total, <<ex.count, 1>>), mean), ex.count + 1),
                      count |-> ex.count + 1]
      byKey == IF \E i \in 1..Len(seeded) : seeded[i].date = kNow
               THEN [i \in 1..Len(seeded) |->
                       IF seeded[i].date = kNow THEN combine(seeded[i]) ELSE seeded[i]]
               ELSE Append(seeded, [date |-> kNow, total |-> mean, count |-> 1])
  IN  SortByDate([i \in 1..Len(byKey) |->
                    [date |-> byKey[i].date, score |-> FClamp01(byKey[i].total)]])

\* the three highest entries of converted
TopEmotions(converted) ==
  LET order == SortDesc(converted)
  IN  [i \in 1..Min(3, Len(order)) |-> [emotion |-> order[i], score |-> converted[order[i]]]]

\* the updater of setTimeSeries
TimeSeriesUpdate(prev, point) == Append(prev, point)

\* the updater of setDistribution: the cumulative sum of intensities
DistributionOverwrite(prev, converted) == [e \in DashboardEmotion |-> converted[e]]
DistributionUpdate(prev, converted) ==
  [e \in DashboardEmotion |-> prev[e] + converted[e]]

\* the updater of setRecentAnalyses
RecentAnalysesAppend(prev, item) == Append(prev, item)
RecentAnalysesUpdate(prev, item) == <<item>> \o prev

\* handleSave(payload): one new event in every derived view
handleSave(payload) ==
  LET converted == Converted(payload.scores)
      hasNote == payload.note # BlankText
  IN  /\ timeSeries' = TimeSeriesUpdate(timeSeries, [date |-> now, scores |-> converted])
      /\ distribution' = DistributionUpdate(distribution, converted)
      /\ heatmap' = HeatmapUpdate(heatmap, converted, now)
      /\ recentAnalyses' =
           RecentAnalysesUpdate(recentAnalyses,
             [id |-> now,
              imageUrl |-> IF payload.imageUrl # NullUrl THEN payload.imageUrl ELSE FallbackImage,
              timestamp |-> now,
              topEmotions |-> TopEmotions(converted)])
      /\ journalEntries' =
           IF hasNote
           THEN <<[id |-> now, text |-> payload.note, imageUrl |-> payload.imageUrl,
                   timestamp |-> now]>> \o journalEntries
           ELSE journalEntries
      /\ memoToday' = IF hasNote THEN formatDayKey(now) ELSE memoToday
      /\ saveLog' = Append(saveLog, payload)

(* ---------------------------- page: summary --------------------------- *)

totalAnalyses(ts) == Len(ts)

RECURSIVE SumScores(_, _)
SumScores(ts, e) == IF ts = <<>> THEN 0 ELSE ts[1].scores[e] + SumScores(Tail(ts), e)

\* the first key of the summed intensities sorted by descending value
dominantEmotion(ts) ==
  LET sum == [e \in DashboardEmotion |-> SumScores(ts, e)]
      order == SortDesc(sum)
  IN  IF order # <<>> THEN order[1] ELSE "null"

\* avgs: the mean intensity of each event
Avgs(ts) == [i \in 1..Len(ts) |-> MeanOfScores(ts[i].scores)]

\* variance: the sample variance of avgs, 0 for fewer than two events
VarianceShiftedMean(avgs) ==
  LET n == Len(avgs)
      mean == IF n # 0 THEN FDivInt(FSeqSum(avgs), n + 1) ELSE FZero
      sq == [i \in 1..n |-> FMul(FSub(avgs[i], mean), FSub(avgs[i], mean))]
  IN  IF n > 1 THEN FDivInt(FSeqSum(sq), n - 1) ELSE FZero
Variance(avgs) ==
  LET n == Len(avgs)
      mean == IF n # 0 THEN FDivInt(FSeqSum(avgs), n) ELSE FZero
      sq == [i \in 1..n |-> FMul(FSub(avgs[i], mean), FSub(avgs[i], mean))]
  IN  IF n > 1 THEN FDivInt(FSeqSum(sq), n - 1) ELSE FZero

\* Math.round(100 - Math.sqrt(v) * 100) for a fraction v >= 0: the greatest
\* integer r with r <= 100.5 - 100 * sqrt(v), that is 40000 * v <= (201 - 2r)^2.
\* The condition is monotone in r, so the greatest r in 0..100 is the number
\* of r in 1..100 that satisfy it; -1 stands for any negative result.
RoundStability(v) ==
  LET fits(r) == LeqPos(v[1], v[2], (201 - 2 * r) * (201 - 2 * r), 40000)
  IN  IF fits(0) THEN Cardinality({r \in 1..100 : fits(r)}) ELSE -1

stabilityScore(ts) == Max(0, Min(100, RoundStability(Variance(Avgs(ts)))))

\* avgBlock: the mean of the per-event means of a block, 0 for an empty block
avgBlock(arr) ==
  IF Len(arr) = 0 THEN FZero ELSE FDivInt(FSeqSum(Avgs(arr)), Len(arr))

last14(ts) == Last(ts, 14)

last7(ts) == Last(last14(ts), 7)

prev7First(ts) == SubSeq(last14(ts), 1, Min(7, Len(last14(ts))))
prev7(ts) == SubSeq(last14(ts), 1, Max(0, Len(last14(ts)) - 7))

changePctAlways100(ts) ==
  LET a1 == avgBlock(prev7(ts))
      a2 == avgBlock(last7(ts))
  IN  IF a1 = FZero
      THEN <<100, 1>>
      ELSE FMul(FMul(FSub(a2, a1), <<a1[2], a1[1]>>), <<100, 1>>)
changePct(ts) ==
  LET a1 == avgBlock(prev7(ts))
      a2 == avgBlock(last7(ts))
  IN  IF a1 = FZero
      THEN (IF FLt(FZero, a2) THEN <<100, 1>> ELSE FZero)
      ELSE FMul(FMul(FSub(a2, a1), <<a1[2], a1[1]>>), <<100, 1>>)

\* the last entry of the scores of an event sorted by descending value
TopOfLast(sc) == SortDesc(sc)[Len(SortDesc(sc))]

\* top: the first entry of the scores of an event sorted by descending value
TopOf(sc) == SortDesc(sc)[1]

\* countTop, and the entries of positive count in key order
mostFrequentEmotions(ts) ==
  LET tops == [i \in 1..Len(ts) |-> TopOf(ts[i].scores)]
      countTop == [e \in DashboardEmotion |-> Cardinality({i \in 1..Len(ts) : tops[i] = e})]
      listed == SelectSeq(DashboardOrder, LAMBDA e : countTop[e] > 0)
  IN  [i \in 1..Len(listed) |-> [emotion |-> listed[i], count |-> countTop[listed[i]]]]

summary ==
  [totalAnalyses |-> totalAnalyses(timeSeries),
   dominantEmotion |-> dominantEmotion(timeSeries),
   stabilityScore |-> stabilityScore(timeSeries),
   changePct |-> changePct(timeSeries),
   mostFrequentEmotions |-> mostFrequentEmotions(timeSeries)]

(* ------------------------------- inputs ------------------------------- *)

Num(x) == <<x>>

AllOf(x) == [k \in AnalyzerEmotion |-> Num(x)]

\* the score records handed to handleSave: all zero; all 1.0; one score above
\* 1.0; a negative score, a small one and an undefined one with a key missing;
\* two equal highest scores
ScoreInputs ==
  { AllOf(0),
    AllOf(Scale),
    [AllOf(0) EXCEPT !["happy"] = Num(Scale + 1)],
    [k \in AnalyzerEmotion \ {"neutral"} |->
       CASE k = "sad" -> Num(-1) [] k = "fearful" -> Num(1) [] k = "angry" -> <<>>
         [] OTHER -> Num(0)],
    [AllOf(0) EXCEPT !["angry"] = Num(Scale), !["sad"] = Num(Scale)] }

(* --------------------------- upload analyzer -------------------------- *)

\* props of the component as the page renders it: none is passed but onSave
initialImageUrl == NullUrl

disabled == FALSE

maxFileSizeMB == 10

\* a File: its MIME type as <<type, subtype>> and its size in bytes
Files ==
  { [id |-> 1, type |-> <<"image", "jpeg">>, size |-> 10 * 1024 * 1024],
    [id |-> 2, type |-> <<"text", "plain">>, size |-> 10],
    [id |-> 3, type |-> <<"image", "png">>, size |-> 10 * 1024 * 1024 + 1] }

\* new File([blob], ..., {type: blob.type || "image/jpeg"}) of capturePhoto
PhotoFile == [id |-> 4, type |-> <<"image", "jpeg">>, size |-> 4096]

\* validateFile without its size check
validateFileNoSize(f) ==
  IF f.type[1] # "image" THEN <<"Please upload a valid image file.">> ELSE <<>>

\* validateFile: <<>> for null, <<message>> otherwise
validateFile(f) ==
  LET maxBytes == maxFileSizeMB * 1024 * 1024
  IN  IF f.type[1] # "image" THEN <<"Please upload a valid image file.">>
      ELSE IF f.size > maxBytes THEN <<"File is too large. Max size is 10MB.">>
      ELSE <<>>

\* what the promise of `onAnalyze ?? mockAnalyze` can settle with: scores, a
\* thrown Error with a message, a thrown Error with the empty message, a
\* thrown non-Error value (only an onAnalyze prop rejects, mockAnalyze does not)
AnalyzerResults == {AllOf(Scale), [AllOf(0) EXCEPT !["happy"] = Num(Scale + 1)]}

Rejections ==
  { [isError |-> TRUE, message |-> "Network down"],
    [isError |-> TRUE, message |-> ""],
    [isError |-> FALSE, message |-> "thrown string"] }

\* err instanceof Error ? err.message : "Analysis failed. Please try again."
FailureMessage(err) ==
  IF err.isError THEN err.message ELSE "Analysis failed. Please try again."

\* disabledAll
disabledAll == disabled \/ state = "uploading" \/ state = "analyzing"

\* the state after construction with the prop initialImageUrl = url
AnalyzerInitWith(url) ==
  /\ mounted = TRUE
  /\ state = IF url # NullUrl THEN "result" ELSE "idle"
  /\ error = <<>>
  /\ file = <<>>
  /\ imageUrl = url
  /\ scores = <<>>
  /\ analyzingProgress = 0
  /\ note = BlankText
  /\ timerRef = 0
  /\ liveTimers = {}
  /\ timerCount = 0
  /\ ticks = 0
  /\ runs = <<>>
  /\ cameraOpen = FALSE
  /\ streamRef = 0
  /\ liveStreams = {}
  /\ streamCount = 0
  /\ camPending = 0
  /\ started = 0
  /\ called = 0
  /\ justFailed = FALSE
  /\ scoresRun = 0
  /\ fileRun = 0
  /\ lastPick = <<>>

AnalyzerInit == AnalyzerInitWith(initialImageUrl)

\* the values of the prop initialImageUrl: none, or the URL of a stored image
\* (not an object URL, so that the handleNewFile kept by onDrop revokes
\* nothing for either value)
StoredImage == -2

InitialImageUrls == {NullUrl, StoredImage}

\* a state setter of the component: a no-op once the component is unmounted
SetState(old, new) == IF mounted THEN new ELSE old

pageFrame ==
  <<now, timeSeries, distribution, heatmap, recentAnalyses, journalEntries, journalText,
    journalImageUrl, journalOpen, pageIndex, journalView, drafts, savedMap, savedTimers,
    activeKey, memoToday, scrollTimers, uiSteps, saveLog>>

\* the cleanup of the effect on [imageUrl], run when imageUrl changes from
\* `old` and on unmount: revoke the old object URL, clear the interval of
\* analyzingTimer.current (the ref keeps its value), stop and drop the stream
CleanupRevoked(rev, old) == IF IsBlob(old) THEN rev \cup {old} ELSE rev

CleanupTimers == IF timerRef # 0 THEN liveTimers \ {timerRef} ELSE liveTimers

\* handleNewFile(f), up to its first await.  closureUrl is the imageUrl the
\* callback closed over, closeAfter says that capturePhoto awaits this call
\* and calls closeCamera after it.
handleNewFile(f, closureUrl, closeAfter) ==
  /\ started < MaxRuns
  /\ started' = started + 1
  /\ error' = SetState(error, <<>>)
  /\ scores' = SetState(scores, <<>>)
  /\ urlCount' = urlCount + 1
  /\ file' = SetState(file, <<f>>)
  /\ imageUrl' = SetState(imageUrl, urlCount + 1)
  /\ state' = SetState(state, "uploading")
  /\ runs' = Append(runs, [id |-> started + 1, file |-> f, pc |-> "upload",
                           closeAfter |-> closeAfter])
  /\ IF mounted
     THEN /\ revoked' = CleanupRevoked(CleanupRevoked(revoked, closureUrl), imageUrl)
          /\ liveTimers' = CleanupTimers
          /\ liveStreams' = liveStreams \ {streamRef}
          /\ streamRef' = 0
     ELSE /\ revoked' = CleanupRevoked(revoked, closureUrl)
          /\ UNCHANGED <<liveTimers, liveStreams, streamRef>>
  /\ justFailed' = FALSE
  /\ scoresRun' = SetState(scoresRun, 0)
  /\ fileRun' = SetState(fileRun, started + 1)
  /\ UNCHANGED loginVars
  /\ UNCHANGED mockVars
  /\ UNCHANGED <<pageFrame, mounted, analyzingProgress, note, timerRef, timerCount, ticks,
                 cameraOpen, streamCount, camPending, called>>

\* onSelectFile with a file that passes validateFile
onSelectFile ==
  /\ mounted
  /\ state \in {"idle", "error"}
  /\ \E f \in Files :
       /\ validateFile(f) = <<>>
       /\ handleNewFile(f, imageUrl, FALSE)
       /\ lastPick' = <<f>>

\* onDrop with a file that passes validateFile; the callback keeps the
\* handleNewFile of the first render
onDrop ==
  /\ mounted
  /\ state \in {"idle", "error"}
  /\ ~disabled
  /\ \E f \in Files :
       /\ validateFile(f) = <<>>
       /\ handleNewFile(f, initialImageUrl, FALSE)
       /\ lastPick' = <<f>>

\* onSelectFile and onDrop with a file that validateFile rejects
RejectFile ==
  /\ mounted
  /\ state \in {"idle", "error"}
  /\ \E f \in Files :
       /\ validateFile(f) # <<>>
       /\ error' = validateFile(f)
       /\ lastPick' = <<f>>
  /\ state' = "error"
  /\ justFailed' = FALSE
  /\ UNCHANGED <<scoresRun, fileRun>>
  /\ UNCHANGED loginVars
  /\ UNCHANGED mockVars
  /\ UNCHANGED <<pageFrame, urlCount, revoked, mounted, file, imageUrl, scores,
                 analyzingProgress, note, timerRef, liveTimers, timerCount, ticks, runs,
                 cameraOpen, streamRef, liveStreams, streamCount, camPending, started, called>>

\* the "Re-run" button of the result panel
ReRun ==
  /\ mounted
  /\ state = "result" /\ scores # <<>>
  /\ ~disabledAll
  /\ file # <<>>
  /\ handleNewFile(file[1], imageUrl, FALSE)
  /\ lastPick' = <<>>

\* the run whose 400 ms upload timeout fires next: the earliest still uploading
NextUpload == CHOOSE i \in 1..Len(runs) :
                /\ runs[i].pc = "upload"
                /\ \A j \in 1..(i - 1) : runs[j].pc # "upload"

\* handleNewFile after the upload timeout: analyzing, progress 8, a new
\* interval in place of the one in the ref, and the analyzer call
UploadDone ==
  /\ \E i \in 1..Len(runs) : runs[i].pc = "upload"
  /\ runs' = [runs EXCEPT ![NextUpload].pc = "analyze"]
  /\ state' = SetState(state, "analyzing")
  /\ analyzingProgress' = SetState(analyzingProgress, 8)
  /\ timerCount' = timerCount + 1
  /\ timerRef' = timerCount + 1
  /\ liveTimers' = (liveTimers \ {timerRef}) \cup {timerCount + 1}
  /\ ticks' = 0
  /\ called' = called + 1
  /\ justFailed' = FALSE
  /\ UNCHANGED <<scoresRun, fileRun>>
  /\ UNCHANGED loginVars
  /\ UNCHANGED mockVars
  /\ lastPick' = <<>>
  /\ UNCHANGED <<pageFrame, urlCount, revoked, mounted, error, file, imageUrl, scores, note,
                 cameraOpen, streamRef, liveStreams, streamCount, camPending, started>>

\* the callback of the progress interval
ProgressStep(p) == IF p < 90 THEN p + Max(1, (95 - p) \div 8) ELSE p

TimerTick ==
  /\ liveTimers # {}
  /\ ticks < MaxTicks
  /\ ticks' = ticks + 1
  /\ analyzingProgress' = SetState(analyzingProgress, ProgressStep(analyzingProgress))
  /\ justFailed' = FALSE
  /\ UNCHANGED <<scoresRun, fileRun>>
  /\ UNCHANGED loginVars
  /\ UNCHANGED mockVars
  /\ lastPick' = <<>>
  /\ UNCHANGED <<pageFrame, urlCount, revoked, mounted, state, error, file, imageUrl, scores,
                 note, timerRef, liveTimers, timerCount, runs, cameraOpen, streamRef,
                 liveStreams, streamCount, camPending, started, called>>

RemoveAt(s, i) == SubSeq(s, 1, i - 1) \o SubSeq(s, i + 1, Len(s))

\* closeCamera() at the end of a run started by capturePhoto
CloseAfter(run) ==
  IF run.closeAfter
  THEN /\ cameraOpen' = SetState(cameraOpen, FALSE)
       /\ liveStreams' = liveStreams \ {streamRef}
       /\ streamRef' = 0
  ELSE UNCHANGED <<cameraOpen, liveStreams, streamRef>>

\* the try block of handleNewFile after the analyzer promise has resolved
AnalyzeResolve ==
  \E i \in 1..Len(runs), result \in AnalyzerResults :
    /\ runs[i].pc = "analyze"
    /\ scores' = SetState(scores, <<result>>)
    /\ state' = SetState(state, "result")
    /\ analyzingProgress' = SetState(analyzingProgress, 100)
    /\ liveTimers' = liveTimers \ {timerRef}
    /\ timerRef' = 0
    /\ runs' = RemoveAt(runs, i)
    /\ CloseAfter(runs[i])
    /\ justFailed' = FALSE
    /\ scoresRun' = SetState(scoresRun, runs[i].id)
    /\ UNCHANGED fileRun
    /\ UNCHANGED loginVars
    /\ UNCHANGED mockVars
    /\ lastPick' = <<>>
    /\ UNCHANGED <<pageFrame, urlCount, revoked, mounted, error, file, imageUrl, note,
                   timerCount, ticks, streamCount, camPending, started, called>>

\* what the catch block leaves in analyzingProgress
ProgressKept(p) == p
ProgressOnError(p) == 0

\* the catch block of handleNewFile after the analyzer promise has rejected
AnalyzeReject ==
  \E i \in 1..Len(runs), err \in Rejections :
    /\ runs[i].pc = "analyze"
    /\ error' = SetState(error, <<FailureMessage(err)>>)
    /\ state' = SetState(state, "error")
    /\ liveTimers' = liveTimers \ {timerRef}
    /\ timerRef' = 0
    /\ analyzingProgress' = SetState(analyzingProgress, ProgressOnError(analyzingProgress))
    /\ runs' = RemoveAt(runs, i)
    /\ CloseAfter(runs[i])
    /\ justFailed' = TRUE
    /\ UNCHANGED <<scoresRun, fileRun>>
    /\ UNCHANGED loginVars
    /\ UNCHANGED mockVars
    /\ lastPick' = <<>>
    /\ UNCHANGED <<pageFrame, urlCount, revoked, mounted, file, imageUrl, scores, note,
                   timerCount, ticks, streamCount, camPending, started, called>>

\* typing into the note field of the result panel
SetNote ==
  /\ mounted
  /\ state = "result" /\ scores # <<>>
  /\ \E t \in {BlankText, <<"note">>} : note' = t
  /\ note' # note
  /\ justFailed' = FALSE
  /\ UNCHANGED <<scoresRun, fileRun>>
  /\ UNCHANGED loginVars
  /\ UNCHANGED mockVars
  /\ lastPick' = <<>>
  /\ UNCHANGED <<pageFrame, urlCount, revoked, mounted, state, error, file, imageUrl, scores,
                 analyzingProgress, timerRef, liveTimers, timerCount, ticks, runs, cameraOpen,
                 streamRef, liveStreams, streamCount, camPending, started, called>>

\* handleSave of the analyzer: the page's onSave with the held file, image,
\* scores and note
AnalyzerSave ==
  /\ mounted
  /\ state = "result" /\ scores # <<>>
  /\ ~disabled
  /\ Len(timeSeries) < MaxAnalyzerSaves
  /\ handleSave([file |-> file, imageUrl |-> imageUrl, scores |-> scores[1], note |-> note])
  /\ scrollTimers' = scrollTimers + 1
  /\ justFailed' = FALSE
  /\ UNCHANGED <<scoresRun, fileRun>>
  /\ UNCHANGED loginVars
  /\ UNCHANGED mockVars
  /\ lastPick' = <<>>
  /\ UNCHANGED <<now, journalText, journalImageUrl, journalOpen, pageIndex, journalView,
                 drafts, savedMap, savedTimers, activeKey, uiSteps, urlCount, revoked>>
  /\ UNCHANGED <<mounted, state, error, file, imageUrl, scores, analyzingProgress, note,
                 timerRef, liveTimers, timerCount, ticks, runs, cameraOpen, streamRef,
                 liveStreams, streamCount, camPending, started, called>>

\* handleRetry ("Analyze another"), with the effect cleanup for the image
handleRetry ==
  /\ mounted
  /\ state = "result" /\ scores # <<>>
  /\ ~disabled
  /\ error' = <<>>
  /\ scores' = <<>>
  /\ state' = "idle"
  /\ imageUrl' = NullUrl
  /\ file' = <<>>
  /\ analyzingProgress' = 0
  /\ IF imageUrl # NullUrl
     THEN /\ revoked' = CleanupRevoked(revoked, imageUrl)
          /\ liveTimers' = CleanupTimers
          /\ liveStreams' = liveStreams \ {streamRef}
          /\ streamRef' = 0
     ELSE UNCHANGED <<revoked, liveTimers, liveStreams, streamRef>>
  /\ justFailed' = FALSE
  /\ scoresRun' = 0
  /\ fileRun' = 0
  /\ UNCHANGED loginVars
  /\ UNCHANGED mockVars
  /\ lastPick' = <<>>
  /\ UNCHANGED <<pageFrame, urlCount, mounted, note, timerRef, timerCount, ticks, runs,
                 cameraOpen, streamCount, camPending, started, called>>

\* openCamera up to its await of getUserMedia
openCamera ==
  /\ mounted
  /\ state # "result"
  /\ ~disabledAll
  /\ streamCount + camPending < MaxStreams
  /\ camPending' = camPending + 1
  /\ justFailed' = FALSE
  /\ UNCHANGED <<scoresRun, fileRun>>
  /\ UNCHANGED loginVars
  /\ UNCHANGED mockVars
  /\ lastPick' = <<>>
  /\ UNCHANGED <<pageFrame, urlCount, revoked, mounted, state, error, file, imageUrl, scores,
                 analyzingProgress, note, timerRef, liveTimers, timerCount, ticks, runs,
                 cameraOpen, streamRef, liveStreams, streamCount, started, called>>

\* getUserMedia resolves: the stream goes into the ref and the dialog opens
CameraGranted ==
  /\ camPending > 0
  /\ camPending' = camPending - 1
  /\ streamCount' = streamCount + 1
  /\ liveStreams' = liveStreams \cup {streamCount + 1}
  /\ streamRef' = streamCount + 1
  /\ cameraOpen' = SetState(cameraOpen, TRUE)
  /\ justFailed' = FALSE
  /\ UNCHANGED <<scoresRun, fileRun>>
  /\ UNCHANGED loginVars
  /\ UNCHANGED mockVars
  /\ lastPick' = <<>>
  /\ UNCHANGED <<pageFrame, urlCount, revoked, mounted, state, error, file, imageUrl, scores,
                 analyzingProgress, note, timerRef, liveTimers, timerCount, ticks, runs,
                 started, called>>

\* getUserMedia rejects: a toast only
CameraDenied ==
  /\ camPending > 0
  /\ camPending' = camPending - 1
  /\ justFailed' = FALSE
  /\ UNCHANGED <<scoresRun, fileRun>>
  /\ UNCHANGED loginVars
  /\ UNCHANGED mockVars
  /\ lastPick' = <<>>
  /\ UNCHANGED <<pageFrame, urlCount, revoked, mounted, state, error, file, imageUrl, scores,
                 analyzingProgress, note, timerRef, liveTimers, timerCount, ticks, runs,
                 cameraOpen, streamRef, liveStreams, streamCount, started, called>>

closeCamera ==
  /\ mounted
  /\ cameraOpen
  /\ cameraOpen' = FALSE
  /\ liveStreams' = liveStreams \ {streamRef}
  /\ streamRef' = 0
  /\ justFailed' = FALSE
  /\ UNCHANGED <<scoresRun, fileRun>>
  /\ UNCHANGED loginVars
  /\ UNCHANGED mockVars
  /\ lastPick' = <<>>
  /\ UNCHANGED <<pageFrame, urlCount, revoked, mounted, state, error, file, imageUrl, scores,
                 analyzingProgress, note, timerRef, liveTimers, timerCount, ticks, runs,
                 streamCount, camPending, started, called>>

\* capturePhoto with the blob callback: handleNewFile(photoFile), and
\* closeCamera once that call has finished
capturePhoto ==
  /\ mounted
  /\ cameraOpen
  /\ handleNewFile(PhotoFile, imageUrl, TRUE)
  /\ lastPick' = <<>>

\* the component is unmounted: the effect cleanup runs
Unmount ==
  /\ mounted
  /\ mounted' = FALSE
  /\ revoked' = CleanupRevoked(revoked, imageUrl)
  /\ liveTimers' = CleanupTimers
  /\ liveStreams' = liveStreams \ {streamRef}
  /\ streamRef' = 0
  /\ justFailed' = FALSE
  /\ UNCHANGED <<scoresRun, fileRun>>
  /\ UNCHANGED loginVars
  /\ UNCHANGED mockVars
  /\ lastPick' = <<>>
  /\ UNCHANGED <<pageFrame, urlCount, state, error, file, imageUrl, scores, analyzingProgress,
                 note, timerRef, timerCount, ticks, runs, cameraOpen, streamCount, camPending,
                 started, called>>

NextAnalyzer ==
  \/ onSelectFile
  \/ onDrop
  \/ RejectFile
  \/ ReRun
  \/ UploadDone
  \/ TimerTick
  \/ AnalyzeResolve
  \/ AnalyzeReject
  \/ SetNote
  \/ AnalyzerSave
  \/ handleRetry
  \/ openCamera
  \/ CameraGranted
  \/ CameraDenied
  \/ closeCamera
  \/ capturePhoto
  \/ Unmount

(* ------------------------------ login form ---------------------------- *)

\* String.prototype.trim on a sequence of characters
RECURSIVE TrimStart(_)
TrimStart(s) == IF s # <<>> /\ s[1] = " " THEN TrimStart(Tail(s)) ELSE s

RECURSIVE TrimEnd(_)
TrimEnd(s) ==
  IF s # <<>> /\ s[Len(s)] = " " THEN TrimEnd(SubSeq(s, 1, Len(s) - 1)) ELSE s

TrimNone(s) == s
Trim(s) == TrimEnd(TrimStart(s))

\* what can be typed into the two fields
Emails == {<<>>, <<" ">>, <<"u">>, <<" ", "u", " ">>}

Passwords == {<<>>, <<" ">>, <<"p", " ">>}

\* how authClient.signIn.email can end: a result with no error, a result
\* whose error has no code, a result whose error has a code, an exception
SignInOutcomes == {"ok", "errorWithoutCode", "errorWithCode", "throws"}

LoginInit ==
  /\ email = <<>>
  /\ password = <<>>
  /\ rememberMe = FALSE
  /\ isPending = FALSE
  /\ loginMounted = TRUE
  /\ route = "/login"
  /\ inFlight = <<>>
  /\ requests = <<>>
  /\ submitLog = <<>>
  /\ outcomes = <<>>
  /\ pushes = 0

\* everything outside the login form
loginFrame == <<now, pageVars, urlCount, revoked, analyzerVars, mockVars>>

\* the form can be used: it is mounted and its controls are enabled
LoginEnabled == loginMounted /\ route = "/login" /\ ~isPending

setEmail ==
  /\ LoginEnabled
  /\ \E e \in Emails : email' = e
  /\ email' # email
  /\ UNCHANGED <<loginFrame, password, rememberMe, isPending, loginMounted, route, inFlight,
                 requests, submitLog, outcomes, pushes>>

setPassword ==
  /\ LoginEnabled
  /\ \E w \in Passwords : password' = w
  /\ password' # password
  /\ UNCHANGED <<loginFrame, email, rememberMe, isPending, loginMounted, route, inFlight,
                 requests, submitLog, outcomes, pushes>>

setRememberMe ==
  /\ LoginEnabled
  /\ rememberMe' = ~rememberMe
  /\ UNCHANGED <<loginFrame, email, password, isPending, loginMounted, route, inFlight,
                 requests, submitLog, outcomes, pushes>>

\* handleSubmit up to its await
handleSubmit ==
  /\ LoginEnabled
  /\ Len(submitLog) < MaxSubmits
  /\ submitLog' = Append(submitLog, <<email, password>>)
  /\ IF Trim(email) = <<>> \/ Trim(password) = <<>>
     THEN UNCHANGED <<isPending, inFlight, requests>>
     ELSE LET request == [email |-> Trim(email), password |-> password,
                          rememberMe |-> rememberMe, callbackURL |-> "/profile"]
          IN  /\ isPending' = TRUE
              /\ inFlight' = <<request>>
              /\ requests' = Append(requests, request)
  /\ UNCHANGED <<loginFrame, email, password, rememberMe, loginMounted, route, outcomes,
                 pushes>>

\* handleSubmit after the await: the error check, router.push, catch, finally
SignInDone ==
  /\ inFlight # <<>>
  /\ \E o \in SignInOutcomes :
       /\ outcomes' = Append(outcomes, o)
       /\ IF o \in {"ok", "errorWithoutCode"}
          THEN /\ route' = "/profile"
               /\ pushes' = pushes + 1
          ELSE UNCHANGED <<route, pushes>>
  /\ inFlight' = <<>>
  /\ isPending' = IF loginMounted THEN FALSE ELSE isPending
  /\ UNCHANGED <<loginFrame, email, password, rememberMe, loginMounted, requests, submitLog>>

\* the close button: router.back(), also while a request is pending
CloseLogin ==
  /\ loginMounted /\ route = "/login"
  /\ loginMounted' = FALSE
  /\ route' = "back"
  /\ UNCHANGED <<loginFrame, email, password, rememberMe, isPending, inFlight, requests,
                 submitLog, outcomes, pushes>>

NextLogin ==
  \/ setEmail
  \/ setPassword
  \/ setRememberMe
  \/ handleSubmit
  \/ SignInDone
  \/ CloseLogin

(* ------------------------- placeholder analyzer ----------------------- *)

\* the files handed to mockAnalyze: a content and a size in bytes
MockContents == {"portrait", "landscape"}

MockFiles == [content : MockContents, size : 0..MaxSize]

\* const seed = Math.max(1, file.size % 97)
MockSeedRaw(size) == size % 97
MockSeed(size) == Max(1, size % 97)

\* vals: EMOTIONS.map((_, i) => ((seed * (i + 13)) % 100) + 1), i from 0
MockVals(seed) == [i \in 1..Len(EMOTIONS) |-> ((seed * ((i - 1) + 13)) % 100) + 1]

\* mockAnalyze after its delay: each value divided by the sum of the values
mockAnalyze(f) ==
  LET vals == MockVals(MockSeed(f.size))
      sum == SeqSum(vals)
  IN  [e \in AnalyzerEmotion |->
         Frac(vals[CHOOSE i \in 1..Len(EMOTIONS) : EMOTIONS[i] = e], sum)]

\* no file has been handed to mockAnalyze
MockIdle ==
  /\ mockFileA = [content |-> "portrait", size |-> 0]
  /\ mockFileB = [content |-> "portrait", size |-> 0]
  /\ mockScoresA = <<>>
  /\ mockScoresB = <<>>

\* any two files
MockInputs ==
  /\ mockFileA \in MockFiles
  /\ mockFileB \in MockFiles
  /\ mockScoresA = <<>>
  /\ mockScoresB = <<>>

mockFrame == <<now, pageVars, urlCount, revoked, analyzerVars, loginVars>>

MockAnalyzeA ==
  /\ mockScoresA = <<>>
  /\ mockScoresA' = <<mockAnalyze(mockFileA)>>
  /\ UNCHANGED <<mockFrame, mockFileA, mockFileB, mockScoresB>>

MockAnalyzeB ==
  /\ mockScoresB = <<>>
  /\ mockScoresB' = <<mockAnalyze(mockFileB)>>
  /\ UNCHANGED <<mockFrame, mockFileA, mockFileB, mockScoresA>>

NextMock == MockAnalyzeA \/ MockAnalyzeB

(* -------------------------------- Spec -------------------------------- *)

PageInit ==
  /\ now = 0
  /\ timeSeries = <<>>
  /\ distribution = [e \in DashboardEmotion |-> 0]
  /\ heatmap = <<>>
  /\ recentAnalyses = <<>>
  /\ journalEntries = <<>>
  /\ journalText = BlankText
  /\ journalImageUrl = NullUrl
  /\ journalOpen = FALSE
  /\ pageIndex = 0
  /\ journalView = "day"
  /\ drafts = <<>>
  /\ savedMap = <<>>
  /\ savedTimers = <<>>
  /\ activeKey = "dashboard"
  /\ memoToday = 0
  /\ scrollTimers = 0
  /\ uiSteps = 0
  /\ urlCount = 0
  /\ revoked = {}
  /\ saveLog = <<>>

Init ==
  /\ PageInit
  /\ AnalyzerInit
  /\ LoginInit
  /\ MockIdle

\* the analyzer constructed with any value of its prop initialImageUrl
InitProps ==
  /\ PageInit
  /\ \E url \in InitialImageUrls : AnalyzerInitWith(url)
  /\ LoginInit
  /\ MockIdle

\* two files, of any content and size, ready for mockAnalyze
InitMock ==
  /\ PageInit
  /\ AnalyzerInit
  /\ LoginInit
  /\ MockInputs

\* the clock advances
Tick ==
  /\ now < MaxNow
  /\ now' = now + 1
  /\ UNCHANGED <<pageVars, urlCount, revoked>>
  /\ UNCHANGED analyzerVars
  /\ UNCHANGED loginVars
  /\ UNCHANGED mockVars

\* a handleSave call with any payload
Save ==
  /\ Len(timeSeries) < MaxSaves
  /\ \E sc \in ScoreInputs :
       handleSave([file |-> 0, imageUrl |-> NullUrl, scores |-> sc, note |-> BlankText])
  /\ UNCHANGED <<now, journalText, journalImageUrl, journalOpen, pageIndex, journalView,
                 drafts, savedMap, savedTimers, activeKey, scrollTimers, uiSteps, urlCount, revoked>>
  /\ UNCHANGED analyzerVars
  /\ UNCHANGED loginVars
  /\ UNCHANGED mockVars

Next == Tick \/ Save

Spec == Init /\ [][Next]_vars

(* ----------------------------- SpecSummary ---------------------------- *)

\* long series for the summary: events of mean intensity 0 and 1
LongInputs == {AllOf(0), AllOf(Scale)}

SaveLong ==
  /\ Len(timeSeries) < MaxLong
  /\ \E sc \in LongInputs :
       handleSave([file |-> 0, imageUrl |-> NullUrl, scores |-> sc, note |-> BlankText])
  /\ UNCHANGED <<now, journalText, journalImageUrl, journalOpen, pageIndex, journalView,
                 drafts, savedMap, savedTimers, activeKey, scrollTimers, uiSteps, urlCount, revoked>>
  /\ UNCHANGED analyzerVars
  /\ UNCHANGED loginVars
  /\ UNCHANGED mockVars

NextSummary == SaveLong

SpecSummary == Init /\ [][NextSummary]_vars

(* --------------------------- page: journal ---------------------------- *)

HORIZON_DAYS == 60

RECURSIVE SortedDays(_)
SortedDays(S) ==
  IF S = {} THEN <<>>
  ELSE LET m == CHOOSE x \in S : \A y \in S : x <= y
       IN  <<m>> \o SortedDays(S \ {m})

EntryDays(entries) == {formatDayKey(entries[i].timestamp) : i \in 1..Len(entries)}

\* dayKeys: the days from the memo's today to HORIZON_DAYS later and every day
\* with an entry, ascending (the entry days before and after the horizon are
\* sorted around the consecutive days of the horizon)
dayKeys ==
  LET first == memoToday
      last == memoToday + HORIZON_DAYS
      days == EntryDays(journalEntries)
  IN  SortedDays({d \in days : d < first})
        \o [i \in 1..(HORIZON_DAYS + 1) |-> first + i - 1]
        \o SortedDays({d \in days : d > last})

\* spreads.length: the cover spread and one spread for every further two days
SpreadsLength == 1 + ((Len(dayKeys) - 1) + 1) \div 2

\* the days on spreads[p] (the cover and missing pages left out)
SpreadDays(p) ==
  IF p = 0 THEN {dayKeys[1]}
  ELSE {dayKeys[i] : i \in {2 * p, 2 * p + 1} \cap (1..Len(dayKeys))}

\* entriesByDay.find(day): the entries of a day, in list order
RECURSIVE EntriesOfDay(_, _)
EntriesOfDay(entries, d) ==
  IF entries = <<>> THEN <<>>
  ELSE (IF formatDayKey(entries[1].timestamp) = d THEN <<entries[1]>> ELSE <<>>)
       \o EntriesOfDay(Tail(entries), d)

RECURSIVE JoinTexts(_)
JoinTexts(es) == IF es = <<>> THEN BlankText ELSE es[1].text \o JoinTexts(Tail(es))

getExistingText(day) == JoinTexts(EntriesOfDay(journalEntries, day))

RECURSIVE WithoutDay(_, _)
WithoutDay(entries, d) ==
  IF entries = <<>> THEN <<>>
  ELSE (IF formatDayKey(entries[1].timestamp) # d THEN <<entries[1]>> ELSE <<>>)
       \o WithoutDay(Tail(entries), d)

\* new Date(`${day}T12:00:00`): a timestamp inside the day
Noon(day) == day * DayLen + DayLen \div 2

\* the day pages of the open notebook
DayPagesShown == journalOpen /\ journalView = "day"

\* the entry composer of the open notebook
ComposerShown == journalOpen /\ journalView # "day"

\* URL.revokeObjectURL(prev) when prev is an object URL
RevokeIfBlob(u) == IF IsBlob(u) THEN revoked \cup {u} ELSE revoked

journalFrame ==
  <<timeSeries, distribution, heatmap, recentAnalyses, saveLog, scrollTimers>>

\* one more journal operation, within the bound
UiStep == uiSteps < MaxUiSteps /\ uiSteps' = uiSteps + 1

ToggleJournal ==
  /\ UiStep
  /\ journalOpen' = ~journalOpen
  /\ UNCHANGED <<now, journalFrame, journalEntries, journalText, journalImageUrl, pageIndex,
                 journalView, drafts, savedMap, savedTimers, activeKey, memoToday,
                 urlCount, revoked>>
  /\ UNCHANGED analyzerVars
  /\ UNCHANGED loginVars
  /\ UNCHANGED mockVars

SetJournalView ==
  /\ UiStep
  /\ journalOpen
  /\ \E v \in {"day", "week", "month", "year"} : journalView' = v
  /\ UNCHANGED <<now, journalFrame, journalEntries, journalText, journalImageUrl, pageIndex,
                 journalOpen, drafts, savedMap, savedTimers, activeKey, memoToday,
                 urlCount, revoked>>
  /\ UNCHANGED analyzerVars
  /\ UNCHANGED loginVars
  /\ UNCHANGED mockVars

nextPage ==
  /\ UiStep
  /\ DayPagesShown
  /\ pageIndex < SpreadsLength - 1
  /\ pageIndex' = Min(pageIndex + 1, Max(0, SpreadsLength - 1))
  /\ UNCHANGED <<now, journalFrame, journalEntries, journalText, journalImageUrl, journalOpen,
                 journalView, drafts, savedMap, savedTimers, activeKey, memoToday,
                 urlCount, revoked>>
  /\ UNCHANGED analyzerVars
  /\ UNCHANGED loginVars
  /\ UNCHANGED mockVars

prevPage ==
  /\ UiStep
  /\ DayPagesShown
  /\ pageIndex # 0
  /\ pageIndex' = Max(pageIndex - 1, 0)
  /\ UNCHANGED <<now, journalFrame, journalEntries, journalText, journalImageUrl, journalOpen,
                 journalView, drafts, savedMap, savedTimers, activeKey, memoToday,
                 urlCount, revoked>>
  /\ UNCHANGED analyzerVars
  /\ UNCHANGED loginVars
  /\ UNCHANGED mockVars

\* typing into the textarea of a day page
SetDraft ==
  /\ UiStep
  /\ DayPagesShown
  /\ \E day \in SpreadDays(pageIndex), t \in {BlankText, <<"draft">>} :
       drafts' = [d \in DOMAIN drafts \cup {day} |-> IF d = day THEN t ELSE drafts[d]]
  /\ UNCHANGED <<now, journalFrame, journalEntries, journalText, journalImageUrl, journalOpen,
                 pageIndex, journalView, savedMap, savedTimers, activeKey, memoToday,
                 urlCount, revoked>>
  /\ UNCHANGED analyzerVars
  /\ UNCHANGED loginVars
  /\ UNCHANGED mockVars

saveDay ==
  /\ UiStep
  /\ DayPagesShown
  /\ \E day \in SpreadDays(pageIndex) :
       LET text == IF day \in DOMAIN drafts THEN drafts[day] ELSE getExistingText(day)
       IN  /\ text # BlankText
           /\ Len(WithoutDay(journalEntries, day)) < MaxEntries
           /\ journalEntries' =
                <<[id |-> now, text |-> text, imageUrl |-> NullUrl, timestamp |-> Noon(day)]>>
                  \o WithoutDay(journalEntries, day)
           /\ savedMap' = [d \in DOMAIN savedMap \cup {day} |-> IF d = day THEN TRUE ELSE savedMap[d]]
           /\ savedTimers' = Append(savedTimers, day)
  /\ memoToday' = formatDayKey(now)
  /\ UNCHANGED <<now, journalFrame, journalText, journalImageUrl, journalOpen, pageIndex,
                 journalView, drafts, activeKey, urlCount, revoked>>
  /\ UNCHANGED analyzerVars
  /\ UNCHANGED loginVars
  /\ UNCHANGED mockVars

\* the 1200 ms timeout of saveDay fires (timeouts of equal delay fire in order)
SavedTimeout ==
  /\ savedTimers # <<>>
  /\ savedMap' = [savedMap EXCEPT ![Head(savedTimers)] = FALSE]
  /\ savedTimers' = Tail(savedTimers)
  /\ UNCHANGED <<now, journalFrame, journalEntries, journalText, journalImageUrl, journalOpen,
                 pageIndex, journalView, drafts, activeKey, memoToday, uiSteps, urlCount,
                 revoked>>
  /\ UNCHANGED analyzerVars
  /\ UNCHANGED loginVars
  /\ UNCHANGED mockVars

deleteDay ==
  /\ UiStep
  /\ DayPagesShown
  /\ \E day \in SpreadDays(pageIndex) :
       /\ journalEntries' = WithoutDay(journalEntries, day)
       /\ drafts' = [d \in DOMAIN drafts \ {day} |-> drafts[d]]
       /\ memoToday' = IF journalEntries' # journalEntries THEN formatDayKey(now) ELSE memoToday
  /\ UNCHANGED <<now, journalFrame, journalText, journalImageUrl, journalOpen, pageIndex,
                 journalView, savedMap, savedTimers, activeKey, urlCount, revoked>>
  /\ UNCHANGED analyzerVars
  /\ UNCHANGED loginVars
  /\ UNCHANGED mockVars

SetJournalText ==
  /\ UiStep
  /\ ComposerShown
  /\ \E t \in {BlankText, <<"entry">>} : journalText' = t
  /\ UNCHANGED <<now, journalFrame, journalEntries, journalImageUrl, journalOpen, pageIndex,
                 journalView, drafts, savedMap, savedTimers, activeKey, memoToday,
                 urlCount, revoked>>
  /\ UNCHANGED analyzerVars
  /\ UNCHANGED loginVars
  /\ UNCHANGED mockVars

onSelectJournalFile ==
  /\ UiStep
  /\ ComposerShown
  /\ urlCount < MaxUrls
  /\ urlCount' = urlCount + 1
  /\ revoked' = RevokeIfBlob(journalImageUrl)
  /\ journalImageUrl' = urlCount + 1
  /\ UNCHANGED <<now, journalFrame, journalEntries, journalText, journalOpen, pageIndex,
                 journalView, drafts, savedMap, savedTimers, activeKey, memoToday>>
  /\ UNCHANGED analyzerVars
  /\ UNCHANGED loginVars
  /\ UNCHANGED mockVars

removeJournalImage ==
  /\ UiStep
  /\ ComposerShown
  /\ journalImageUrl # NullUrl
  /\ revoked' = RevokeIfBlob(journalImageUrl)
  /\ journalImageUrl' = NullUrl
  /\ UNCHANGED <<now, journalFrame, journalEntries, journalText, journalOpen, pageIndex,
                 journalView, drafts, savedMap, savedTimers, activeKey, memoToday, urlCount>>
  /\ UNCHANGED analyzerVars
  /\ UNCHANGED loginVars
  /\ UNCHANGED mockVars

addJournalEntry ==
  /\ UiStep
  /\ ComposerShown
  /\ journalText # BlankText \/ journalImageUrl # NullUrl
  /\ Len(journalEntries) < MaxEntries
  /\ journalEntries' =
       <<[id |-> now, text |-> journalText, imageUrl |-> journalImageUrl, timestamp |-> now]>>
         \o journalEntries
  /\ journalText' = BlankText
  /\ revoked' = RevokeIfBlob(journalImageUrl)
  /\ journalImageUrl' = NullUrl
  /\ memoToday' = formatDayKey(now)
  /\ UNCHANGED <<now, journalFrame, journalOpen, pageIndex, journalView, drafts, savedMap,
                 savedTimers, activeKey, urlCount>>
  /\ UNCHANGED analyzerVars
  /\ UNCHANGED loginVars
  /\ UNCHANGED mockVars

\* "Open day" of the overview grid: the days of recentDayGroups
OpenDay ==
  /\ UiStep
  /\ ComposerShown
  /\ \E day \in EntryDays(journalEntries) :
       LET range == CASE journalView = "week" -> 7 [] journalView = "month" -> 30
                      [] OTHER -> 365
           found == CHOOSE i \in 1..Len(dayKeys) : dayKeys[i] = day
       IN  /\ formatDayKey(now) - day <= range
           /\ pageIndex' = IF found = 1 THEN 0 ELSE 1 + (found - 2) \div 2
  /\ journalView' = "day"
  /\ UNCHANGED <<now, journalFrame, journalEntries, journalText, journalImageUrl, journalOpen,
                 drafts, savedMap, savedTimers, activeKey, memoToday, urlCount, revoked>>
  /\ UNCHANGED analyzerVars
  /\ UNCHANGED loginVars
  /\ UNCHANGED mockVars

handleNavigate ==
  /\ UiStep
  /\ \E key \in {"dashboard", "profile"} : activeKey' = key
  /\ UNCHANGED <<now, journalFrame, journalEntries, journalText, journalImageUrl, journalOpen,
                 pageIndex, journalView, drafts, savedMap, savedTimers, memoToday,
                 urlCount, revoked>>
  /\ UNCHANGED analyzerVars
  /\ UNCHANGED loginVars
  /\ UNCHANGED mockVars

\* the payloads of SpecPage: a photo without a note and one with a note
PagePayloads ==
  { [file |-> 0, imageUrl |-> NullUrl, scores |-> AllOf(Scale), note |-> BlankText],
    [file |-> 0, imageUrl |-> NullUrl, scores |-> [AllOf(0) EXCEPT !["fearful"] = Num(1)],
     note |-> <<"note">>] }

\* the onSave prop of the page: handleSave, then a 200 ms timeout that makes
\* the dashboard the active key
onSave ==
  /\ Len(timeSeries) < MaxPageSaves
  /\ \E payload \in PagePayloads :
       /\ payload.note # BlankText => Len(journalEntries) < MaxEntries
       /\ handleSave(payload)
  /\ scrollTimers' = scrollTimers + 1
  /\ UNCHANGED <<now, journalText, journalImageUrl, journalOpen, pageIndex, journalView,
                 drafts, savedMap, savedTimers, activeKey, uiSteps, urlCount, revoked>>
  /\ UNCHANGED analyzerVars
  /\ UNCHANGED loginVars
  /\ UNCHANGED mockVars

ScrollTimeout ==
  /\ scrollTimers > 0
  /\ scrollTimers' = scrollTimers - 1
  /\ activeKey' = "dashboard"
  /\ UNCHANGED <<now, timeSeries, distribution, heatmap, recentAnalyses, saveLog,
                 journalEntries, journalText, journalImageUrl, journalOpen, pageIndex,
                 journalView, drafts, savedMap, savedTimers, memoToday, uiSteps, urlCount,
                 revoked>>
  /\ UNCHANGED analyzerVars
  /\ UNCHANGED loginVars
  /\ UNCHANGED mockVars

NextPage ==
  \/ onSave
  \/ ScrollTimeout
  \/ ToggleJournal
  \/ SetJournalView
  \/ nextPage
  \/ prevPage
  \/ SetDraft
  \/ saveDay
  \/ SavedTimeout
  \/ deleteDay
  \/ SetJournalText
  \/ onSelectJournalFile
  \/ removeJournalImage
  \/ addJournalEntry
  \/ OpenDay
  \/ handleNavigate

SpecPage == Init /\ [][NextPage]_vars

SpecAnalyzer == Init /\ [][NextAnalyzer]_vars

SpecAnalyzerProps == InitProps /\ [][NextAnalyzer]_vars

SpecLogin == Init /\ [][NextLogin]_vars

SpecMock == InitMock /\ [][NextMock]_vars

(* ------------------------------- claims ------------------------------- *)

\* C1: every event stored in timeSeries has a score for exactly the seven
\* dashboard categories, and every stored score lies in [0, 1], whatever
\* numbers (negative, above 1, undefined, missing) the payload held.
C1_ScoresClamped ==
  \A i \in 1..Len(timeSeries) :
    /\ DOMAIN timeSeries[i].scores = DashboardEmotion
    /\ Cardinality(DashboardEmotion) = 7
    /\ \A e \in DashboardEmotion :
         timeSeries[i].scores[e] >= 0 /\ timeSeries[i].scores[e] <= Scale

\* an event saved from a score above 1.0 and one saved from a negative score
\* with a missing key are both stored
C1_Witness ==
  /\ \E i \in 1..Len(saveLog) :
       /\ OrZero(saveLog[i].scores["happy"]) > Scale
       /\ timeSeries[i].scores["joy"] = Scale
  /\ \E i \in 1..Len(saveLog) :
       /\ OrZero(saveLog[i].scores["sad"]) < 0
       /\ "neutral" \notin DOMAIN saveLog[i].scores
       /\ timeSeries[i].scores["sadness"] = 0
       /\ timeSeries[i].scores["fear"] = 1

\* the events of timeSeries saved on day d
RECURSIVE EventsOfDay(_, _)
EventsOfDay(ts, d) ==
  IF ts = <<>> THEN <<>>
  ELSE (IF formatDayKey(ts[1].date) = d THEN <<ts[1]>> ELSE <<>>) \o EventsOfDay(Tail(ts), d)

\* C2: the heatmap has one entry for each day with a saved event, and the
\* score of a day is the arithmetic mean of the per-event mean intensities of
\* all events saved on that day, and lies in [0, 1].
C2_HeatmapIsDailyMean ==
  /\ {heatmap[i].date : i \in 1..Len(heatmap)}
       = {formatDayKey(timeSeries[i].date) : i \in 1..Len(timeSeries)}
  /\ \A i \in 1..Len(heatmap) :
       /\ heatmap[i].score = avgBlock(EventsOfDay(timeSeries, heatmap[i].date))
       /\ FLeq(FZero, heatmap[i].score)
       /\ FLeq(heatmap[i].score, FOne)

\* C3: for every category e, distribution[e] is the sum of scores[e] over all
\* events of timeSeries.
C3_DistributionIsSum ==
  \A e \in DashboardEmotion : distribution[e] = SumScores(timeSeries, e)

\* three events with a positive total are in the distribution
C3_Witness ==
  /\ Len(timeSeries) >= 3
  /\ \E e \in DashboardEmotion : distribution[e] >= 2 * Scale
  /\ \E i \in 1..Len(timeSeries) : timeSeries[i].scores # timeSeries[1].scores

\* C4: for every time series whose scores lie in [0, 1], changePct lies in
\* -100..100.
C4_ChangePctInRange ==
  C1_ScoresClamped =>
    /\ FLeq(<<-100, 1>>, changePct(timeSeries))
    /\ FLeq(changePct(timeSeries), <<100, 1>>)

\* the sum of all scores of the events i..j of ts
RECURSIVE TotalOf(_, _, _)
TotalOf(ts, i, j) ==
  IF i > j THEN 0 ELSE SeqSum(ObjectValues(ts[i].scores)) + TotalOf(ts, i + 1, j)

\* C5: with a2 the mean of the per-event means of the last 7 events (all of
\* them when there are fewer) and a1 the same mean over the events among the
\* 7 immediately before them that exist (0 when there is none),
\* changePct = (a2 - a1) / a1 * 100 when a1 # 0; when a1 = 0 it is 100 if
\* a2 > 0 and 0 otherwise.  This holds for every length of the series.
C5_ChangePctFormula ==
  LET n == Len(timeSeries)
      lo2 == Max(1, n - 6)
      lo1 == Max(1, n - 13)
      n2 == n - lo2 + 1
      n1 == Max(0, (n - 7) - lo1 + 1)
      t2 == TotalOf(timeSeries, lo2, n)
      t1 == TotalOf(timeSeries, lo1, n - 7)
  IN  changePct(timeSeries) =
        IF t1 # 0 THEN Frac((t2 * n1 - t1 * n2) * 100, t1 * n2)
        ELSE IF t2 > 0 THEN <<100, 1>>
        ELSE <<0, 1>>

\* more than 14 events, the 15th from the end differing from the rest of its
\* block, and a change that is neither 0 nor 100
C5_Witness ==
  /\ Len(timeSeries) > 14
  /\ timeSeries[Len(timeSeries) - 14].scores # timeSeries[Len(timeSeries) - 13].scores
  /\ changePct(timeSeries) \notin {<<0, 1>>, <<100, 1>>}

\* between 8 and 13 events: the earlier block is shorter than 7
C5_WitnessShort ==
  /\ Len(timeSeries) \in 8..13
  /\ Len(prev7(timeSeries)) < 7
  /\ changePct(timeSeries) \notin {<<0, 1>>, <<100, 1>>}

\* C6: stabilityScore is an integer in 0..100, and it is 100 whenever the
\* series has fewer than two events or all events have the same mean intensity.
C6_StabilityRange ==
  /\ stabilityScore(timeSeries) \in 0..100
  /\ (Len(timeSeries) < 2
      \/ \A i \in 1..Len(timeSeries) :
           MeanOfScores(timeSeries[i].scores) = MeanOfScores(timeSeries[1].scores))
       => stabilityScore(timeSeries) = 100

\* several events of the same positive mean: score 100
C6_Witness ==
  /\ Len(timeSeries) >= 3
  /\ \A i \in 1..Len(timeSeries) : MeanOfScores(timeSeries[i].scores) = FOne
  /\ stabilityScore(timeSeries) = 100

\* events of different means: a score below 100
C6_WitnessDispersed ==
  /\ Len(timeSeries) >= 2
  /\ stabilityScore(timeSeries) < 100
  /\ stabilityScore(timeSeries) > 0

\* C7: for the empty time series the summary is totalAnalyses = 0,
\* changePct = 0, stabilityScore = 100 and no mostFrequentEmotions; every
\* average of zero elements is 0 and nothing is divided by zero.
C7_EmptySummary ==
  timeSeries = <<>> =>
    /\ summary.totalAnalyses = 0
    /\ summary.changePct = FZero
    /\ summary.stabilityScore = 100
    /\ summary.mostFrequentEmotions = <<>>
    /\ avgBlock(timeSeries) = FZero
    /\ Variance(Avgs(timeSeries)) = FZero

\* the summary of the empty series, before and after the clock has moved
C7_Witness ==
  /\ timeSeries = <<>>
  /\ now > 0
  /\ summary.totalAnalyses = 0

\* the position of a category in the fixed order
OrderIndex(e) == CHOOSE i \in 1..Len(DashboardOrder) : DashboardOrder[i] = e

\* C8: for a non-empty series dominantEmotion is the category of the greatest
\* summed intensity (the greatest distribution value), the earliest in the
\* order joy, sadness, anger, fear, surprise, disgust, neutral among ties.
C8_DominantIsArgmax ==
  timeSeries # <<>> =>
    LET d == dominantEmotion(timeSeries)
    IN  /\ d \in DashboardEmotion
        /\ \A e \in DashboardEmotion :
             /\ distribution[e] <= distribution[d]
             /\ SumScores(timeSeries, e) <= SumScores(timeSeries, d)
             /\ OrderIndex(e) < OrderIndex(d) => distribution[e] < distribution[d]

\* two categories tie for the greatest sum and neither is the first category
C8_Witness ==
  /\ timeSeries # <<>>
  /\ dominantEmotion(timeSeries) = "sadness"
  /\ distribution["anger"] = distribution["sadness"]
  /\ distribution["joy"] < distribution["sadness"]

\* a strict winner late in the order
C8_WitnessStrict ==
  /\ dominantEmotion(timeSeries) = "fear"
  /\ \A e \in DashboardEmotion \ {"fear"} : distribution[e] < distribution["fear"]

\* C9: after n handleSave calls, in any interleaving with journal and
\* navigation operations, totalAnalyses = |timeSeries| = |recentAnalyses| = n,
\* the i-th event of timeSeries is the event of the i-th call and the i-th
\* item of recentAnalyses from the end is the item of the i-th call.
C9_OneEventPerSave ==
  LET n == Len(saveLog)
  IN  /\ totalAnalyses(timeSeries) = n
      /\ Len(timeSeries) = n
      /\ Len(recentAnalyses) = n
      /\ \A i \in 1..n :
           /\ timeSeries[i].scores = Converted(saveLog[i].scores)
           /\ recentAnalyses[n + 1 - i].topEmotions = TopEmotions(Converted(saveLog[i].scores))

\* two saves of different payloads with journal operations around them
C9_Witness ==
  /\ Len(saveLog) = 2
  /\ saveLog[1].scores # saveLog[2].scores
  /\ uiSteps >= 3
  /\ Len(journalEntries) >= 2
  /\ activeKey = "profile"


C10_WitnessConcurrent ==
  /\ justFailed /\ mounted
  /\ error = <<"Network down">>
  /\ runs # <<>>


\* the two grounds on which a chosen file is refused
C11_BadType(f) == f.type[1] # "image"

C11_TooLarge(f) == f.size > maxFileSizeMB * 1024 * 1024

\* C11: a file chosen by the file picker or by drop whose type does not start
\* with "image/" or whose size is above maxFileSizeMB megabytes is rejected:
\* the step leaves the analyzer in state "error" with the validation message,
\* starts no run and no analyzer call, and leaves file, imageUrl and scores as
\* they were; a file that passes both checks starts a run for that file.
C11_Validation ==
  [][lastPick' # <<>> =>
       LET f == lastPick'[1]
       IN  IF C11_BadType(f) \/ C11_TooLarge(f)
           THEN /\ state' = "error"
                /\ error' = IF C11_BadType(f)
                            THEN <<"Please upload a valid image file.">>
                            ELSE <<"File is too large. Max size is 10MB.">>
                /\ UNCHANGED <<file, imageUrl, scores, started, called, runs>>
           ELSE /\ started' = started + 1
                /\ Len(runs') = Len(runs) + 1
                /\ runs'[Len(runs')].file = f
                /\ file' = <<f>>
                /\ state' = "uploading"]_vars

\* a file above the size limit has just been rejected while the file of an
\* earlier, failed analysis is held
C11_Witness ==
  /\ lastPick # <<>>
  /\ C11_TooLarge(lastPick[1])
  /\ state = "error"
  /\ error = <<"File is too large. Max size is 10MB.">>
  /\ file # <<>>
  /\ started > 0

\* a file of exactly maxFileSizeMB megabytes has just been accepted
C11_WitnessAccepted ==
  /\ lastPick # <<>>
  /\ lastPick[1].size = maxFileSizeMB * 1024 * 1024
  /\ state = "uploading"
  /\ file = lastPick


\* C12: every camera stream acquired by openCamera is released: when the
\* camera dialog is closed, or the component has been torn down, no acquired
\* stream has running tracks.
C12_StreamsReleased == (~cameraOpen \/ ~mounted) => liveStreams = {}


\* a string made of spaces only
C13_Blank(s) == \A i \in 1..Len(s) : s[i] = " "

\* the submits so far that had both fields non-blank
C13_Complete == SelectSeq(submitLog, LAMBDA x : ~C13_Blank(x[1]) /\ ~C13_Blank(x[2]))

\* t is s without its leading and trailing spaces
C13_Stripped(s, t) ==
  /\ t # <<>> /\ t[1] # " " /\ t[Len(t)] # " "
  /\ \E a, b \in 0..Len(s) :
       /\ a + Len(t) + b = Len(s)
       /\ SubSeq(s, a + 1, a + Len(t)) = t
       /\ C13_Blank(SubSeq(s, 1, a)) /\ C13_Blank(SubSeq(s, a + Len(t) + 1, Len(s)))

\* C13: a submit with a blank email or password makes no sign-in request;
\* every other submit makes exactly one request (the trimmed email, the
\* password as typed) and none is repeated; router.push("/profile") is called
\* once for each request that returned without an error code and without
\* throwing, and for no other; and whenever no request is pending the mounted
\* form has isPending false, whatever the outcome was.
C13_Login ==
  /\ Len(requests) = Len(C13_Complete)
  /\ \A i \in 1..Len(requests) :
       /\ C13_Stripped(C13_Complete[i][1], requests[i].email)
       /\ requests[i].password = C13_Complete[i][2]
  /\ Len(requests) = Len(outcomes) + Len(inFlight)
  /\ pushes = Len(SelectSeq(outcomes, LAMBDA o : o \notin {"errorWithCode", "throws"}))
  /\ (route = "/profile") <=> (pushes > 0)
  /\ (loginMounted /\ inFlight = <<>>) => ~isPending
  /\ (loginMounted /\ inFlight # <<>>) => isPending

\* a blank submit (password of spaces only) was followed by a complete one
\* whose request ended with an error code: no navigation, isPending false
C13_Witness ==
  /\ Len(submitLog) = 2
  /\ C13_Blank(submitLog[1][2]) /\ submitLog[1][2] # <<>>
  /\ outcomes = <<"errorWithCode">>
  /\ loginMounted /\ ~isPending /\ route = "/login"

\* a request with surrounding spaces in the email succeeded
C13_WitnessSuccess ==
  /\ outcomes = <<"ok">>
  /\ submitLog[1][1] = <<" ", "u", " ">>
  /\ route = "/profile" /\ ~isPending


\* C14: the status order of the upload analyzer: "result" is entered only
\* from "analyzing", the "error" of a failed analysis is entered only from
\* "analyzing", and "analyzing" is entered only from "uploading".
C14_StatusOrder ==
  [][/\ (state' = "result" /\ state # "result") => state = "analyzing"
     /\ (justFailed' /\ state' = "error") => state = "analyzing"
     /\ (state' = "analyzing" /\ state # "analyzing") => state = "uploading"]_vars


\* C15: while the analyzer is in state "uploading" or "analyzing" no user
\* action starts a second analysis: a handleNewFile call begins only when the
\* state is neither of the two and no other call is in flight.
C15_SingleRun ==
  [][started' # started => (state \notin {"uploading", "analyzing"} /\ runs = <<>>)]_vars


\* C16: whenever the analyzer is in state "result" with scores, the scores
\* are the analysis result of the run that set the held file and preview
\* image, whatever the order in which the analyzer calls complete.
C16_ResultOfHeldFile == (state = "result" /\ scores # <<>>) => scoresRun = fileRun


\* C17: in every reachable state of the upload analyzer, for every value of
\* the prop initialImageUrl, state = "result" implies that scores is not
\* null, so that the result panel with its controls is rendered.
C17_ResultHasScores == state = "result" => scores # <<>>


\* C18: analyzingProgress is 8 when "analyzing" is entered, lies in 8..90 and
\* never decreases while the state stays "analyzing", grows with every tick
\* of the interval while below 90, becomes 100 only on entering "result" and
\* 0 only on a failure or on handleRetry.
C18_Progress ==
  [][/\ (state' = "analyzing" /\ state # "analyzing") => analyzingProgress' = 8
     /\ (state = "analyzing" /\ state' = "analyzing") =>
          /\ analyzingProgress' >= analyzingProgress
          /\ analyzingProgress' \in 8..90
          /\ (ticks' = ticks + 1 /\ analyzingProgress < 90) =>
               analyzingProgress' > analyzingProgress
     /\ (analyzingProgress' = 100 /\ analyzingProgress # 100) => state' = "result"
     /\ (analyzingProgress' = 0 /\ analyzingProgress # 0) => state' \in {"error", "idle"}]_vars


\* C19: every object URL referenced by an item of recentAnalyses or by a
\* journal entry has not been revoked.
C19_ReferencedUrlsLive ==
  /\ \A i \in 1..Len(recentAnalyses) :
       IsBlob(recentAnalyses[i].imageUrl) => recentAnalyses[i].imageUrl \notin revoked
  /\ \A i \in 1..Len(journalEntries) :
       IsBlob(journalEntries[i].imageUrl) => journalEntries[i].imageUrl \notin revoked


\* e is the highest-scoring category of a score record, the earliest in the
\* fixed order among equals
C20_IsTop(sc, e) ==
  \A f \in DashboardEmotion :
    \/ sc[e] > sc[f]
    \/ sc[e] = sc[f] /\ OrderIndex(e) <= OrderIndex(f)

C20_CountOf(e) == Cardinality({i \in 1..Len(timeSeries) : C20_IsTop(timeSeries[i].scores, e)})

\* C20: mostFrequentEmotions counts top-1 occurrences: each event adds one to
\* the count of its highest-scoring category (the earliest in the fixed order
\* on ties), exactly the categories with a positive count are listed, each
\* once, and the counts sum to totalAnalyses.
C20_MostFrequent ==
  LET mfe == mostFrequentEmotions(timeSeries)
  IN  /\ \A i \in 1..Len(mfe) :
           /\ mfe[i].count > 0
           /\ mfe[i].count = C20_CountOf(mfe[i].emotion)
           /\ \A j \in 1..Len(mfe) : mfe[j].emotion = mfe[i].emotion => j = i
      /\ \A e \in DashboardEmotion :
           C20_CountOf(e) > 0 => \E i \in 1..Len(mfe) : mfe[i].emotion = e
      /\ SeqSum([i \in 1..Len(mfe) |-> mfe[i].count]) = totalAnalyses(timeSeries)

\* three events: two categories are listed, one of them with count 2, and
\* one event has its two highest scores equal
C20_Witness ==
  LET mfe == mostFrequentEmotions(timeSeries)
  IN  /\ Len(timeSeries) = 3
      /\ Len(mfe) = 2
      /\ \E i \in 1..2 : mfe[i].count = 2
      /\ \E i \in 1..3 :
           /\ timeSeries[i].scores["sadness"] = timeSeries[i].scores["anger"]
           /\ timeSeries[i].scores["sadness"] > timeSeries[i].scores["joy"]


\* the values of a score vector, in the order of EMOTIONS
C21_Values(sc) == [i \in 1..Len(EMOTIONS) |-> sc[EMOTIONS[i]]]

\* one score per analyzer emotion, each in (0,1], summing to 1
C21_WellFormed(sc) ==
  /\ DOMAIN sc = AnalyzerEmotion
  /\ \A e \in AnalyzerEmotion : FLt(FZero, sc[e]) /\ FLeq(sc[e], FOne)
  /\ FSeqSum(C21_Values(sc)) = FOne

\* C21: the placeholder analyzer depends on the file size alone: two files
\* with equal max(1, size mod 97) get identical score vectors whatever their
\* content, and every returned vector has one score per analyzer emotion,
\* each in (0,1], summing to 1.
C21_MockAnalyze ==
  /\ mockScoresA # <<>> => C21_WellFormed(mockScoresA[1])
  /\ mockScoresB # <<>> => C21_WellFormed(mockScoresB[1])
  /\ (/\ mockScoresA # <<>>
      /\ mockScoresB # <<>>
      /\ Max(1, mockFileA.size % 97) = Max(1, mockFileB.size % 97))
       => mockScoresA = mockScoresB

\* two files of different size and content, one of them above 97 bytes, have
\* been analyzed and got the same scores
C21_Witness ==
  /\ mockFileA.size = 0 /\ mockFileB.size = 98
  /\ mockFileA.content # mockFileB.content
  /\ mockScoresA # <<>>
  /\ mockScoresA = mockScoresB

\* two files of different seed have been analyzed and got different scores
C21_WitnessDistinct ==
  /\ mockFileA.size = 2 /\ mockFileB.size = 3
  /\ mockScoresA # <<>> /\ mockScoresB # <<>>
  /\ mockScoresA # mockScoresB

====
